---- MODULE Spec2Model ----
(***************************************************************************)
(* A model of src/index.ts: a GitHub action that deletes a Cloud           *)
(* Translation glossary, creates it again from a file in a bucket, waits,  *)
(* and inspects the long-running create operation once.                    *)
(*                                                                         *)
(* Strings the code takes apart (language inputs, the wait-time input,     *)
(* required inputs that may be blank) are sequences of one-character       *)
(* strings; strings the code only passes around (operation names, error    *)
(* messages, log lines) are TLA+ strings.  A JSON object is a record whose *)
(* DOMAIN holds exactly the fields that are present.                       *)
(***************************************************************************)
EXTENDS Integers, Sequences, FiniteSets, TLC

(***************************************************************************)
(* Bounds of the model.                                                    *)
(***************************************************************************)
\* longest language-codes-set input that is enumerated
MaxCodesLen == 3

(***************************************************************************)
(* JavaScript values.                                                      *)
(***************************************************************************)
\* the value of a missing field / an unset local
Undefined == "undefined"

\* obj.f of a decoded JSON object
Field(obj, f) == IF f \in DOMAIN obj THEN obj[f] ELSE Undefined

\* a variant that lets the empty string pass as a name
FalsyUndefinedOnly(name) == name = Undefined

\* !name for a string-or-undefined (index.ts:189)
Falsy(name) == name = Undefined \/ name = ""

WhiteSpace == {" ", "\t", "\n"}

RECURSIVE TrimStart(_)
TrimStart(s) ==
  IF s # <<>> /\ Head(s) \in WhiteSpace THEN TrimStart(Tail(s)) ELSE s

RECURSIVE TrimEnd(_)
TrimEnd(s) ==
  IF s # <<>> /\ s[Len(s)] \in WhiteSpace
  THEN TrimEnd(SubSeq(s, 1, Len(s) - 1))
  ELSE s

\* String.prototype.trim
Trim(s) == TrimEnd(TrimStart(s))

\* String.prototype.split(",") (index.ts:173): the pieces between the commas,
\* empty pieces kept; the empty string splits into one empty piece.
RECURSIVE SplitFrom(_, _, _, _)
SplitFrom(s, i, cur, acc) ==
  IF i > Len(s) THEN Append(acc, cur)
  ELSE IF s[i] = "," THEN SplitFrom(s, i + 1, <<>>, Append(acc, cur))
  ELSE SplitFrom(s, i + 1, Append(cur, s[i]), acc)

Split(s) == SplitFrom(s, 1, <<>>, <<>>)

(***************************************************************************)
(* parseInt(string) with no radix (index.ts:193).                          *)
(***************************************************************************)
LowerDigits == <<"0", "1", "2", "3", "4", "5", "6", "7", "8", "9",
                 "a", "b", "c", "d", "e", "f">>
UpperDigits == <<"0", "1", "2", "3", "4", "5", "6", "7", "8", "9",
                 "A", "B", "C", "D", "E", "F">>

\* the value of c as a digit of the radix, or -1 when it is none
DigitValue(c, radix) ==
  IF \E i \in 1..radix : LowerDigits[i] = c \/ UpperDigits[i] = c
  THEN (CHOOSE i \in 1..radix : LowerDigits[i] = c \/ UpperDigits[i] = c) - 1
  ELSE -1

\* the longest prefix of s made of digits of the radix, as [n, len]
RECURSIVE DigitPrefix(_, _, _, _)
DigitPrefix(s, radix, n, len) ==
  IF s # <<>> /\ DigitValue(Head(s), radix) >= 0
  THEN DigitPrefix(Tail(s), radix, n * radix + DigitValue(Head(s), radix), len + 1)
  ELSE [n |-> n, len |-> len]

\* parseInt: leading white space skipped, an optional sign, radix 16 after a
\* 0x/0X prefix and 10 otherwise, then the longest run of digits; NaN when
\* that run is empty.  The result is [nan, value].
parseInt(str) ==
  LET s0     == TrimStart(str)
      signed == s0 # <<>> /\ Head(s0) \in {"+", "-"}
      sign   == IF s0 # <<>> /\ Head(s0) = "-" THEN -1 ELSE 1
      s1     == IF signed THEN Tail(s0) ELSE s0
      hex    == Len(s1) >= 2 /\ s1[1] = "0" /\ s1[2] \in {"x", "X"}
      radix  == IF hex THEN 16 ELSE 10
      s2     == IF hex THEN Tail(Tail(s1)) ELSE s1
      p      == DigitPrefix(s2, radix, 0, 0)
  IN  IF p.len = 0 THEN [nan |-> TRUE, value |-> 0]
      ELSE [nan |-> FALSE, value |-> sign * p.n]

isNaN(r) == r.nan

\* the upper clamp of the wait (index.ts:197)
MaxWaitSecs == 300

\* index.ts:196-197: NaN becomes 0, anything above 300 becomes 300
ResolveWaitTime(raw) ==
  LET waitTimeRaw == parseInt(raw)
      w           == IF isNaN(waitTimeRaw) THEN 0 ELSE waitTimeRaw.value
  IN  IF w > MaxWaitSecs THEN MaxWaitSecs ELSE w

(***************************************************************************)
(* The inputs of the action (the workflow's `with:` block).                *)
(***************************************************************************)
RequiredNames == <<"bucket-name", "glossary-name", "glossary-file-name", "project-id">>

LangValues == {<<>>, <<"e", "n">>, <<"f", "r">>}

CodesAlphabet == {"a", ","}

RECURSIVE SeqsUpTo(_, _)
SeqsUpTo(S, n) ==
  IF n = 0 THEN {<<>>}
  ELSE LET shorter == SeqsUpTo(S, n - 1)
       IN  shorter \cup {Append(s, c) : s \in {t \in shorter : Len(t) = n - 1}, c \in S}

CodesValues == SeqsUpTo(CodesAlphabet, MaxCodesLen)

WaitValues ==
  { <<>>,
    <<"0">>,
    <<"-", "0">>,
    <<"5">>,
    <<" ", "7", " ">>,
    <<"1", "2", "0">>,
    <<"3", "0", "0">>,
    <<"3", "0", "1">>,
    <<"4", "0", "0">>,
    <<"a", "b", "c">>,
    <<"1", "2", "a", "b", "c">>,
    <<"0", "x", "1", "0">>,
    <<"-", "5">> }

\* the mandatory inputs: all given, or one of them missing
RequiredValues ==
  LET all == [n \in {RequiredNames[i] : i \in 1..Len(RequiredNames)} |-> <<"v">>]
  IN  {all,
       [all EXCEPT !["bucket-name"] = <<>>],
       [all EXCEPT !["project-id"] = <<>>]}

Envs ==
  { req @@ [n \in {"access-token", "target-language", "source-language",
                    "language-codes-set", "wait-time"} |->
              CASE n = "access-token"       -> <<"t">>
                [] n = "target-language"    -> t
                [] n = "source-language"    -> s
                [] n = "language-codes-set" -> c
                [] n = "wait-time"          -> w]
    : req \in RequiredValues, t \in LangValues, s \in LangValues,
      c \in CodesValues, w \in WaitValues }

\* core.getInput(name, {trimWhiteSpace: true}): the trimmed value, "" if absent
GetInput(e, n) == Trim(e[n])

\* core.getInput(name, {required: true}) throws when the value is empty
InputMissing(e, n) == e[n] = <<>>

(***************************************************************************)
(* The remote service, as far as the code looks at it.                     *)
(***************************************************************************)
Statuses == {200, 300, 404, 500}

Op1 == "projects/v/locations/us-central1/operations/op1"
Op2 == "projects/v/locations/us-central1/operations/op2"

EmptyObject == [f \in {} |-> Undefined]

\* decoded bodies of a create response (GoogleResponse, index.ts:31-36)
CreateBodies == {EmptyObject, [name |-> ""], [name |-> Op1], [name |-> Op2]}

StateValues == {"FAILED", "RUNNING", "SUCCEEDED"}

\* decoded bodies of an inspect response: name, metadata and error are optional
HeadBodies ==
  LET names  == {EmptyObject, [name |-> Op1]}
      metas  == {EmptyObject} \cup {[metadata |-> [state |-> st]] : st \in StateValues}
      errors == {EmptyObject, [error |-> [code |-> 3, message |-> "bad file"]]}
  IN  {n @@ m @@ e : n \in names, m \in metas, e \in errors}

(***************************************************************************)
(* URLs and the request body.                                              *)
(***************************************************************************)
\* index.ts:51
CreateEndPoint(projectId) ==
  <<"v3", "projects", projectId, "locations", "us-central1", "glossaries">>

\* index.ts:77
DeleteEndPoint(projectId, glossaryName) ==
  <<"v3", "projects", projectId, "locations", "us-central1", "glossaries", glossaryName>>

\* a variant that builds the operation's path instead of taking it as returned
HeadEndPointOfGlossary(name) == <<"v3", "operations", name>>

\* index.ts:104
HeadEndPoint(name) == <<"v3", name>>

\* index.ts:148
CreateType(inputsRaw) == IF Len(inputsRaw) > 1 THEN "onePair" ELSE "codesSet"

\* index.ts:154-185: the object handed to JSON.stringify (kept as the object:
\* the serialisation of string-valued fields loses nothing)
BuildInput(e, inputsRaw) ==
  LET glossaryFullName ==
        <<"projects", GetInput(e, "project-id"), "locations", "us-central1",
          "glossaries", GetInput(e, "glossary-name")>>
      glossaryFilePath ==
        <<"gs://", GetInput(e, "bucket-name"), "/", GetInput(e, "glossary-file-name")>>
      inputConfig == [gcsSource |-> [inputUri |-> glossaryFilePath]]
  IN  IF CreateType(inputsRaw) = "onePair"
      THEN [name         |-> glossaryFullName,
            languagePair |-> [sourceLanguageCode |-> inputsRaw[1],
                              targetLanguageCode |-> inputsRaw[2]],
            inputConfig  |-> inputConfig]
      ELSE [name             |-> glossaryFullName,
            languageCodesSet |-> [languageCodes |-> Split(inputsRaw[1])],
            inputConfig      |-> inputConfig]

(***************************************************************************)
(* Status handling of the three calls.                                     *)
(***************************************************************************)
\* a variant without the 404 exemption
DeleteThrowsOn404Too(status) == status >= 300

\* a variant that is off by one at 300
DeleteThrowsAbove300(status) == status # 404 /\ status > 300

\* index.ts:84-98: 404 returns, any other status >= 300 throws
DeleteThrows(status) == status # 404 /\ status >= 300

\* index.ts:60
CreateThrows(status) == status >= 300

\* index.ts:111
HeadThrows(status) == status >= 300

\* the message every one of the three throws (index.ts:66, 97, 119)
RequestFailed == "delete request failed"

(***************************************************************************)
(* State.                                                                  *)
(***************************************************************************)
VARIABLES
  env,        \* the inputs of the run
  script,     \* the top-level try statement: "try" while main() runs its
              \* synchronous part, "end" once the statement is left
  pc,         \* where main/handler stand
  inputsRaw,  \* handler's arguments
  input,      \* the create request body
  name,       \* what createGlossary returned
  waitTime,   \* the resolved wait, in seconds
  message,    \* what headOperation returned
  resp,       \* the last response received: [method, status]
  events,     \* getInput reads, handler calls, fetches, responses, timers
  log,        \* core.info / warning / error lines: <<level, text>>
  outputs,    \* core.setOutput calls: <<name, value>>
  error,      \* the reason main's promise was rejected with
  failed      \* the message core.setFailed was called with

vars == <<env, script, pc, inputsRaw, input, name, waitTime, message, resp,
          events, log, outputs, error, failed>>

NoResp == [method |-> "none", status |-> 0]

Init ==
  /\ env \in Envs
  /\ script = "try"
  /\ pc = "main"
  /\ inputsRaw = <<>>
  /\ input = EmptyObject
  /\ name = Undefined
  /\ waitTime = 0
  /\ message = EmptyObject
  /\ resp = NoResp
  /\ events = <<>>
  /\ log = <<>>
  /\ outputs = <<>>
  /\ error = Undefined
  /\ failed = Undefined

GetInputEvent(n) == <<"getInput", n, 0>>
FetchEvent(method, url) == <<"fetch", method, url>>
ResponseEvent(method, status) == <<"response", method, status>>
TimerEvent(ms) == <<"setTimeout", "ms", ms>>
CallEvent(f, nargs) == <<"call", f, nargs>>

\* `throw` inside an async function: the function's promise is rejected
Throw(msg) ==
  /\ pc' = "rejected"
  /\ error' = msg

(***************************************************************************)
(* main, up to its call of handler (index.ts:217-253).                     *)
(***************************************************************************)
\* a variant that takes one of the two languages for a pair
PairModeEither(targetLanguage, sourceLanguage) ==
  Len(targetLanguage) # 0 \/ Len(sourceLanguage) # 0

\* index.ts:230
PairMode(targetLanguage, sourceLanguage) ==
  Len(targetLanguage) # 0 /\ Len(sourceLanguage) # 0

\* index.ts:242
SetMode(languageCodesSet) == Len(languageCodesSet) # 0

Main ==
  /\ script = "try"
  /\ pc = "main"
  /\ LET targetLanguage   == GetInput(env, "target-language")
         sourceLanguage   == GetInput(env, "source-language")
         languageCodesSet == GetInput(env, "language-codes-set")
         reads == <<GetInputEvent("target-language"),
                    GetInputEvent("source-language"),
                    GetInputEvent("language-codes-set")>>
     IN  IF PairMode(targetLanguage, sourceLanguage)
         THEN /\ inputsRaw' = <<targetLanguage, sourceLanguage>>
              /\ events' = events \o reads \o <<CallEvent("handler", 2)>>
              /\ log' = log \o << <<"info", "detected sourceLanguage, targetLanguage">>,
                                  <<"info", "create one pair glossary resource">> >>
              /\ pc' = "handler"
              /\ UNCHANGED error
         ELSE IF SetMode(languageCodesSet)
         THEN /\ inputsRaw' = <<languageCodesSet>>
              /\ events' = events \o reads \o <<CallEvent("handler", 1)>>
              /\ log' = log \o << <<"info", "detected language codes set">>,
                                  <<"info", "create multi-language glossary resource">> >>
              /\ pc' = "handler"
              /\ UNCHANGED error
         ELSE /\ events' = events \o reads
              /\ Throw("Not appropriate language code input setting")
              /\ UNCHANGED <<inputsRaw, log>>
  /\ UNCHANGED <<env, script, input, name, waitTime, message, resp, outputs, failed>>

(***************************************************************************)
(* handler (index.ts:144-215), one action per stretch between two awaits.  *)
(***************************************************************************)
\* index.ts:145
TooManyInputs(raw) == Len(raw) > 2

\* getRequiredInputs (index.ts:125-141): the first mandatory input that is
\* missing, as an index of RequiredNames, or 0 when all are given
FirstMissing(e) ==
  IF \E i \in 1..Len(RequiredNames) : InputMissing(e, RequiredNames[i])
  THEN CHOOSE i \in 1..Len(RequiredNames) :
         /\ InputMissing(e, RequiredNames[i])
         /\ \A j \in 1..(i - 1) : ~InputMissing(e, RequiredNames[j])
  ELSE 0

\* the reads getRequiredInputs makes before it returns or throws
RequiredReads(e) ==
  LET last == IF FirstMissing(e) = 0 THEN Len(RequiredNames) ELSE FirstMissing(e)
  IN  <<GetInputEvent("access-token")>>
        \o [i \in 1..last |-> GetInputEvent(RequiredNames[i])]

\* the message of the error core.getInput throws for a missing input
MissingMessage(n) ==
  CASE n = "bucket-name"        -> "Input required and not supplied: bucket-name"
    [] n = "glossary-name"      -> "Input required and not supplied: glossary-name"
    [] n = "glossary-file-name" -> "Input required and not supplied: glossary-file-name"
    [] n = "project-id"         -> "Input required and not supplied: project-id"

\* index.ts:144-153 and 77-83: from the call of handler to the DELETE request
HandlerBegin ==
  /\ script = "try"
  /\ pc = "handler"
  /\ IF TooManyInputs(inputsRaw)
     THEN /\ Throw("input can not be more than 2 string object")
          /\ UNCHANGED <<events, log>>
     ELSE IF FirstMissing(env) # 0
     THEN /\ events' = events \o RequiredReads(env)
          /\ Throw(MissingMessage(RequiredNames[FirstMissing(env)]))
          /\ UNCHANGED log
     ELSE /\ events' = events \o RequiredReads(env)
                         \o <<FetchEvent("DELETE",
                                DeleteEndPoint(GetInput(env, "project-id"),
                                               GetInput(env, "glossary-name")))>>
          /\ log' = Append(log, <<"info", "try delete existed resource">>)
          /\ pc' = "deleteGlossary"
          /\ UNCHANGED error
  /\ UNCHANGED <<env, script, inputsRaw, input, name, waitTime, message, resp,
                 outputs, failed>>

\* index.ts:84-101 and 154-188, 51-59: the DELETE response, the request body,
\* the POST request
DeleteGlossaryResp ==
  /\ script = "end"
  /\ pc = "deleteGlossary"
  /\ \E status \in Statuses :
       /\ resp' = [method |-> "DELETE", status |-> status]
       /\ IF DeleteThrows(status)
          THEN /\ events' = Append(events, ResponseEvent("DELETE", status))
               /\ log' = Append(log, <<"error", "delete glossary request failed">>)
               /\ Throw(RequestFailed)
               /\ UNCHANGED input
          ELSE /\ input' = BuildInput(env, inputsRaw)
               /\ events' = events
                    \o <<ResponseEvent("DELETE", status),
                         FetchEvent("POST", CreateEndPoint(GetInput(env, "project-id")))>>
               /\ log' = log
                    \o (IF status = 404
                        THEN << <<"warning", "glossary is not found,continue to create">> >>
                        ELSE <<>>)
                    \o << <<"info", "try create glossary resource">> >>
               /\ pc' = "createGlossary"
               /\ UNCHANGED error
  /\ UNCHANGED <<env, script, inputsRaw, name, waitTime, message, outputs, failed>>

\* index.ts:104-110: the GET request
IssueHead(operationName, evs, lg) ==
  /\ events' = Append(evs, FetchEvent("GET", HeadEndPoint(operationName)))
  /\ log' = Append(lg, <<"info", "try head operation">>)
  /\ pc' = "headOperation"

\* index.ts:60-70 and 189-203: the POST response, the name check, the wait
CreateGlossaryResp ==
  /\ script = "end"
  /\ pc = "createGlossary"
  /\ \E status \in Statuses, body \in CreateBodies :
       /\ resp' = [method |-> "POST", status |-> status]
       /\ IF CreateThrows(status)
          THEN /\ events' = Append(events, ResponseEvent("POST", status))
               /\ log' = Append(log, <<"error", "delete glossary request failed">>)
               /\ Throw(RequestFailed)
               /\ UNCHANGED <<name, waitTime>>
          ELSE /\ name' = Field(body, "name")
               /\ IF Falsy(name')
                  THEN /\ events' = Append(events, ResponseEvent("POST", status))
                       /\ log' = Append(log,
                            <<"error", "failed to parse google response of name field">>)
                       /\ Throw("failed to parse google response of name field")
                       /\ UNCHANGED waitTime
                  ELSE /\ waitTime' = ResolveWaitTime(GetInput(env, "wait-time"))
                       /\ UNCHANGED error
                       /\ LET evs == events \o <<ResponseEvent("POST", status),
                                                 GetInputEvent("wait-time")>>
                          IN  IF waitTime' # 0
                              THEN /\ events' = Append(evs, TimerEvent(waitTime' * 1000))
                                   /\ log' = Append(log, <<"info", "wait for secs...">>)
                                   /\ pc' = "setTimeout"
                              ELSE IssueHead(name', evs, log)
  /\ UNCHANGED <<env, script, inputsRaw, input, message, outputs, failed>>

\* index.ts:200-203: the timer fires and handler goes on to the GET request
TimerFires ==
  /\ script = "end"
  /\ pc = "setTimeout"
  /\ IssueHead(name, events, log)
  /\ UNCHANGED <<env, script, inputsRaw, input, name, waitTime, message, resp,
                 outputs, error, failed>>

\* index.ts:111-123 and 204-214: the GET response and handler's checks of it
HeadOperationResp ==
  /\ script = "end"
  /\ pc = "headOperation"
  /\ \E status \in Statuses, body \in HeadBodies :
       /\ resp' = [method |-> "GET", status |-> status]
       /\ events' = Append(events, ResponseEvent("GET", status))
       /\ IF HeadThrows(status)
          THEN /\ log' = Append(log, <<"error", "delete glossary request failed">>)
               /\ Throw(RequestFailed)
               /\ UNCHANGED message
          ELSE /\ message' = body
               /\ IF "metadata" \notin DOMAIN body
                  THEN /\ log' = Append(log,
                            <<"error", "failed to parse google response of metaData field">>)
                       /\ Throw("failed to parse google response of metaData field")
                  ELSE IF body.metadata.state = "FAILED"
                  THEN /\ log' = Append(log, <<"error", "create operation has failed">>)
                       /\ Throw("create operation failed")
                  ELSE /\ pc' = "mainResume"
                       /\ UNCHANGED <<log, error>>
  /\ UNCHANGED <<env, script, inputsRaw, input, name, waitTime, outputs, failed>>

(***************************************************************************)
(* main after handler has returned (index.ts:236-240 and 246-250).         *)
(***************************************************************************)
\* a variant that tests for the wrong state
SetsOutputWhenSucceeded(msg) ==
  "metadata" \in DOMAIN msg /\ msg.metadata.state = "SUCCEEDED"

\* index.ts:236, 246
SetsOutput(msg) ==
  "metadata" \in DOMAIN msg /\ msg.metadata.state = "RUNNING"

MainResume ==
  /\ script = "end"
  /\ pc = "mainResume"
  /\ outputs' = IF SetsOutput(message)
                THEN Append(outputs, <<"operation-name", Field(message, "name")>>)
                ELSE outputs
  /\ log' = Append(log, <<"info", "update is">>)
  /\ pc' = "done"
  /\ UNCHANGED <<env, script, inputsRaw, input, name, waitTime, message, resp,
                 events, error, failed>>

(***************************************************************************)
(* The top-level statement (index.ts:255-259).                             *)
(***************************************************************************)
\* The positions main() passes through before it first awaits or settles:
\* that stretch runs inside the try block.
SyncPositions == {"main", "handler"}

\* What the call expression main() throws into the try block.  main is an
\* async function (index.ts:217): the call returns its promise, and an
\* exception raised in its body rejects that promise instead of propagating.
\* The promise is not awaited (index.ts:256), so nothing is thrown here.
ThrownByCall(reason) == Undefined

TryCatch ==
  /\ script = "try"
  /\ pc \notin SyncPositions
  /\ script' = "end"
  /\ failed' = IF ThrownByCall(error) # Undefined THEN ThrownByCall(error) ELSE failed
  /\ UNCHANGED <<env, pc, inputsRaw, input, name, waitTime, message, resp,
                 events, log, outputs, error>>

Next ==
  \/ Main
  \/ HandlerBegin
  \/ TryCatch
  \/ DeleteGlossaryResp
  \/ CreateGlossaryResp
  \/ TimerFires
  \/ HeadOperationResp
  \/ MainResume

Spec == Init /\ [][Next]_vars

(***************************************************************************)
(* What the properties below read off the state.                           *)
(***************************************************************************)
\* the fetches and responses, in the order they happened
NetEvents == SelectSeq(events, LAMBDA e : e[1] \in {"fetch", "response"})

\* <<kind, method>> of every fetch and response
NetShape == [i \in 1..Len(NetEvents) |-> <<NetEvents[i][1], NetEvents[i][2]>>]

Fetches == SelectSeq(events, LAMBDA e : e[1] = "fetch")
Timers == SelectSeq(events, LAMBDA e : e[1] = "setTimeout")
HandlerCalls == SelectSeq(events, LAMBDA e : e[1] = "call" /\ e[2] = "handler")
WaitTimeReads ==
  SelectSeq(events, LAMBDA e : e[1] = "getInput" /\ e[2] = "wait-time")
LogLevels == {log[i][1] : i \in 1..Len(log)}

FullShape ==
  << <<"fetch", "DELETE">>, <<"response", "DELETE">>,
     <<"fetch", "POST">>,   <<"response", "POST">>,
     <<"fetch", "GET">>,    <<"response", "GET">> >>

IsPrefix(a, b) == Len(a) <= Len(b) /\ a = SubSeq(b, 1, Len(a))

\* C1: a pair-mode run never has two calls in flight and issues its calls in
\* the order delete, create, inspect, each after the response to the one
\* before; once the inspect call has succeeded there has been exactly one
\* call of each kind, and the inspect call asked for v3/<name>, name being
\* what create returned.
C1_PairRunCallsInOrder ==
  Len(inputsRaw) = 2 =>
    /\ IsPrefix(NetShape, FullShape)
    /\ (resp.method = "GET" /\ resp.status < 300) =>
         /\ NetShape = FullShape
         /\ name \in {Op1, Op2}
         /\ NetEvents[5] = <<"fetch", "GET", <<"v3", name>> >>

C1_Witness ==
  /\ Len(inputsRaw) = 2
  /\ pc = "done"
  /\ resp = [method |-> "GET", status |-> 200]
  /\ name = Op2

\* C2: whenever the flow has failed (main's promise is rejected) and the
\* top-level statement is over, setFailed has been called with the error's
\* message.
C2_FailureCallsSetFailed ==
  (pc = "rejected" /\ script = "end") => failed = error

\* C3: in pair mode the body's languagePair has the source-language input as
\* sourceLanguageCode and the target-language input as targetLanguageCode
\* (handler(a, b) sends source b, target a) and no languageCodesSet; in set
\* mode the body's languageCodes are the input split on commas and there is
\* no languagePair.
C3_BodyLanguages ==
  "name" \in DOMAIN input =>
    IF Len(inputsRaw) = 2
    THEN /\ "languageCodesSet" \notin DOMAIN input
         /\ "languagePair" \in DOMAIN input
         /\ input.languagePair =
              [sourceLanguageCode |-> inputsRaw[2], targetLanguageCode |-> inputsRaw[1]]
         /\ input.languagePair.sourceLanguageCode = env["source-language"]
         /\ input.languagePair.targetLanguageCode = env["target-language"]
    ELSE /\ "languagePair" \notin DOMAIN input
         /\ "languageCodesSet" \in DOMAIN input
         /\ input.languageCodesSet.languageCodes = Split(env["language-codes-set"])

\* C4: after a delete response with a status >= 300 other than 404 the run
\* is rejected with the delete error and has made no further call: no
\* create, no read of wait-time, no timer, no inspect.
C4_DeleteFailureStopsRun ==
  (resp.method = "DELETE" /\ resp.status >= 300 /\ resp.status # 404) =>
    /\ pc = "rejected"
    /\ error = "delete request failed"
    /\ NetShape = << <<"fetch", "DELETE">>, <<"response", "DELETE">> >>
    /\ WaitTimeReads = <<>>
    /\ Timers = <<>>

C4_Witness ==
  /\ resp = [method |-> "DELETE", status |-> 300]
  /\ pc = "rejected"

\* C5: after a delete response with status 404 nothing has been raised, a
\* warning (and no error line) has been logged, and the create call has been
\* issued with the body and URL it has after any other delete that returned.
C5_Delete404GoesOnToCreate ==
  (resp.method = "DELETE" /\ resp.status = 404) =>
    /\ pc = "createGlossary"
    /\ error = Undefined
    /\ "warning" \in LogLevels
    /\ "error" \notin LogLevels
    /\ input = BuildInput(env, inputsRaw)
    /\ NetEvents =
         << FetchEvent("DELETE", DeleteEndPoint(env["project-id"], env["glossary-name"])),
            ResponseEvent("DELETE", 404),
            FetchEvent("POST", CreateEndPoint(env["project-id"])) >>

C5_Witness ==
  /\ resp = [method |-> "DELETE", status |-> 404]
  /\ pc = "createGlossary"
  /\ Len(Fetches) = 2

\* the operation an error message names
OperationTag(msg) ==
  CASE msg = "delete request failed"  -> "DELETE"
    [] msg = "create request failed"  -> "POST"
    [] msg = "inspect request failed" -> "GET"
    [] OTHER                          -> "none"

\* C6: an error raised for a failed remote call names the call that failed:
\* create for a create response >= 300, inspect for an inspect response
\* >= 300, and delete only for a delete response >= 300 other than 404.
C6_ErrorNamesFailedCall ==
  /\ (pc = "rejected" /\ resp.method \in {"POST", "GET"} /\ resp.status >= 300)
       => OperationTag(error) = resp.method
  /\ OperationTag(error) = "DELETE"
       => (resp.method = "DELETE" /\ resp.status >= 300 /\ resp.status # 404)

\* C7: the inspected snapshot decides the outcome.  Without metadata handler
\* fails with the missing-field error; with state FAILED it fails with the
\* create-operation-failed error; with RUNNING it returns and main sets
\* operation-name to the snapshot's name; with SUCCEEDED it returns and main
\* sets no output.  An output is set only if the state seen is RUNNING, and
\* once main is done it is set if the state seen is RUNNING.
C7_SnapshotDecidesOutcome ==
  /\ (resp.method = "GET" /\ resp.status < 300) =>
       IF "metadata" \notin DOMAIN message
       THEN /\ pc = "rejected"
            /\ error = "failed to parse google response of metaData field"
            /\ outputs = <<>>
       ELSE CASE message.metadata.state = "FAILED" ->
                   /\ pc = "rejected"
                   /\ error = "create operation failed"
                   /\ outputs = <<>>
              [] message.metadata.state = "RUNNING" ->
                   /\ pc \in {"mainResume", "done"}
                   /\ error = Undefined
                   /\ outputs = IF pc = "done"
                                THEN << <<"operation-name", Field(message, "name")>> >>
                                ELSE <<>>
              [] message.metadata.state = "SUCCEEDED" ->
                   /\ pc \in {"mainResume", "done"}
                   /\ error = Undefined
                   /\ outputs = <<>>
  /\ outputs # <<>> =>
       /\ resp.method = "GET" /\ resp.status < 300
       /\ "metadata" \in DOMAIN message
       /\ message.metadata.state = "RUNNING"

C7_Witness ==
  /\ pc = "done"
  /\ message.metadata.state = "RUNNING"
  /\ outputs = << <<"operation-name", Op1>> >>

\* C8: after a create response below 300 whose body has no name, or an empty
\* one, the run is rejected with the name-field error, and wait-time has not
\* been read, no timer has been set and no inspect call has been issued.
C8_NoNameStopsBeforeWait ==
  (resp.method = "POST" /\ resp.status < 300 /\ name \in {Undefined, ""}) =>
    /\ pc = "rejected"
    /\ error = "failed to parse google response of name field"
    /\ WaitTimeReads = <<>>
    /\ Timers = <<>>
    /\ Len(Fetches) = 2

C8_Witness ==
  /\ resp = [method |-> "POST", status |-> 200]
  /\ name = ""
  /\ pc = "rejected"

\* a string that is a decimal integer: an optional sign, then digits only
ValidInteger(s) ==
  LET body == IF s # <<>> /\ Head(s) \in {"+", "-"} THEN Tail(s) ELSE s
  IN  /\ body # <<>>
      /\ \A i \in 1..Len(body) : DigitValue(body[i], 10) >= 0

\* the wait the wait-time input resolves to, as the claim has it
ClaimedWait(s) ==
  IF ~ValidInteger(s) THEN 0
  ELSE IF parseInt(s).value > 300 THEN 300
  ELSE parseInt(s).value

\* C9: once wait-time has been read, the resolved wait is 0 for an absent or
\* non-integer input, 300 for a value above 300 and the value otherwise; it
\* lies between 0 and 300; and the flow has paused once, for that many
\* seconds, if it is not 0 and not at all if it is 0.
C9_WaitResolvedAndBounded ==
  WaitTimeReads # <<>> =>
    /\ waitTime = ClaimedWait(GetInput(env, "wait-time"))
    /\ waitTime \in 0..300
    /\ Timers = IF waitTime # 0 THEN <<TimerEvent(waitTime * 1000)>> ELSE <<>>

\* C10: once main has dispatched: with target-language and source-language
\* both non-empty handler was called once with <<target, source>>, whatever
\* language-codes-set is; otherwise with language-codes-set non-empty
\* handler was called once with that one string; otherwise handler was not
\* called, no request was made and the run is rejected with the input error.
\* handler is never called twice.
C10_MainDispatch ==
  /\ Len(HandlerCalls) <= 1
  /\ pc # "main" =>
       LET t == env["target-language"]
           s == env["source-language"]
           c == env["language-codes-set"]
       IN  IF t # <<>> /\ s # <<>>
           THEN /\ HandlerCalls = <<CallEvent("handler", 2)>>
                /\ inputsRaw = <<t, s>>
           ELSE IF c # <<>>
           THEN /\ HandlerCalls = <<CallEvent("handler", 1)>>
                /\ inputsRaw = <<c>>
           ELSE /\ HandlerCalls = <<>>
                /\ inputsRaw = <<>>
                /\ Fetches = <<>>
                /\ pc = "rejected"
                /\ error = "Not appropriate language code input setting"

C10_Witness ==
  /\ env["target-language"] # <<>>
  /\ env["source-language"] = <<>>
  /\ inputsRaw = <<env["language-codes-set"]>>
  /\ pc = "done"

====
